---- MODULE Spec2Model ----
(***************************************************************************)
(* arena.h - bump-pointer arena allocator (piraterna/ckit).                *)
(*                                                                         *)
(* The model keeps the C integer widths: `unsigned long` is W bits wide    *)
(* and `int` is IW bits wide (two's complement), scaled down so that the   *)
(* whole address space can be enumerated.  Addresses are the integers      *)
(* 0 .. 2^W - 1 and NULL is address 0.                                     *)
(***************************************************************************)
EXTENDS Integers, FiniteSets, Sequences, TLC

\* Width in bits of `unsigned long` (capacity, pos, addresses), scaled.
W == 4
\* Width in bits of `int` (the size and alignment arguments), scaled.
IW == 4

ULONG_MOD == 2 ^ W
ULONG_MAX == ULONG_MOD - 1
INT_MAX == 2 ^ (IW - 1) - 1
INT_MIN == 0 - 2 ^ (IW - 1)

\* The null pointer, as an address.
NULL == 0

\* Largest base address the storage provider hands out in the model.
MaxBase == 2
\* Largest size argument the callers of the model pass.
MaxSize == 3
\* Largest alignment argument the callers of the model pass.
MaxAlign == 4

\* ARENA_SIZE of a fixed-storage build (examples/arena.c defines 1024), scaled.
ARENA_SIZE == 7

\* (unsigned long) conversion of an int: reduction modulo 2^W.
ToULong(i) == i % ULONG_MOD

\* Unsigned long addition / pointer arithmetic on a flat W-bit address space.
UAdd(a, b) == (a + b) % ULONG_MOD

\* Bitwise AND of two non-negative integers.
RECURSIVE BitAnd(_, _)
BitAnd(a, b) ==
    IF a = 0 \/ b = 0 THEN 0
    ELSE (a % 2) * (b % 2) + 2 * BitAnd(a \div 2, b \div 2)

\* The error strings of arena.h ("<null>" stands for a NULL error field).
NoErrorField == "<null>"
ErrNone == "no error"
ErrStaticUsed == "static arena already used"
ErrOomStruct == "out of memory (arena struct)"
ErrOomData == "out of memory (arena data)"
ErrNullArena == "null arena"
ErrSize == "invalid allocation size"
ErrAlign == "alignment must be power of two"
ErrOverflow == "arena overflow"
ErrOverflowAligned == "arena overflow (aligned)"

VARIABLES
    mode,                 \* "dynamic", or "static" when ARENA_NOALLOC is defined
    arena,                \* the arena_t record: data, capacity, pos, error
    _arena_static_used,   \* the single-claim guard of the fixed-storage mode
    _arena_error_global,  \* the process-wide error slot
    h,                    \* the handle the caller holds: NULL or "arena"
    last,                 \* the most recent call: arguments, result, pos before it
    earlier,              \* one range returned before `last`, since the last reset
    lock,                 \* the mutex behind ARENA_LOCK / ARENA_UNLOCK: 0 or its holder
    th,                   \* per thread: the call in progress and its position
    holds,                \* the threads to which arena_init returned the instance
    heap                  \* the regions ARENA_MALLOC handed out, and the ARENA_FREE calls

vars == <<mode, arena, _arena_static_used, _arena_error_global, h, last, earlier,
          lock, th, holds, heap>>

\* The state of the threaded specification, left alone by the sequential one.
mtvars == <<lock, th, holds>>

\* Number of threads of the threaded specification.
NThreads == 2
Threads == 1 .. NThreads
\* The size the threads allocate, besides 0 and INT_MAX.
MTSize == 3

IdleThread == [pc |-> "idle", op |-> "none", size |-> 0, alignment |-> 0,
               ret |-> NULL, inst |-> "NULL"]

NoRange == [start |-> 0, size |-> 0]
NoCall == [op |-> "none", inst |-> "NULL", size |-> 0, alignment |-> 0,
           ret |-> NULL, prePos |-> 0]

\* What the caller may pass as the arena argument.
Handles == {"NULL"} \cup (IF h = "arena" THEN {"arena"} ELSE {})

SizeArgs == {-1, 0} \cup (1 .. MaxSize) \cup {INT_MAX}
AlignArgs == -1 .. MaxAlign
InitSizes == {INT_MIN, INT_MAX} \cup ((0 - MaxSize) .. MaxSize)

\* ARENA_MALLOC(n): NULL, or the base of a region of n bytes that lies in the
\* address space with its one-past-the-end address.
MallocResults(n) == {NULL} \cup {b \in 1 .. MaxBase : b + n <= ULONG_MAX}

NoArena == [data |-> NULL, capacity |-> 0, pos |-> 0, error |-> NoErrorField]

\* The storage provider behind ARENA_MALLOC / ARENA_FREE: `live` holds the
\* regions handed out and not yet freed ("struct" is the arena_t record, "data"
\* its storage), `frees` the ARENA_FREE calls of the latest init or destroy, in
\* order, and `bad` is set by a free of a region that is not live.
NoHeap == [live |-> {}, frees |-> <<>>, bad |-> FALSE]

\* Entry of init or destroy: no ARENA_FREE call made yet by this call.
heap_enter(hp) == [hp EXCEPT !.frees = <<>>]

\* ARENA_MALLOC(n) returned region r.
heap_malloc(hp, r) == [hp EXCEPT !.live = @ \cup {r}]

\* ARENA_FREE(r).
heap_free(hp, r) ==
    [hp EXCEPT !.live = @ \ {r}, !.frees = Append(@, r),
               !.bad = @ \/ r \notin hp.live]

\* Mutant: the record is not freed when the storage cannot be obtained.
init_oom_data_cleanup_none(hp) == hp

\* ARENA_FREE(arena); on the failure of the second ARENA_MALLOC of arena_init.
init_oom_data_cleanup(hp) == heap_free(hp, "struct")

\* ARENA_FREE(arena->data); ARENA_FREE(arena); in arena_destroy.
destroy_release(hp) == heap_free(heap_free(hp, "data"), "struct")

\* The range of offsets the call recorded in `last` returned, if it returned one.
LastReturned == last.op \in {"alloc", "alloc_aligned"} /\ last.ret # NULL
LastRange == [start |-> (last.ret - arena.data) % ULONG_MOD, size |-> last.size]

\* Mutant: only the sign of the alignment is checked.
BadAlignment_sign_only(alignment) == alignment <= 0

\* if (alignment <= 0 || (alignment & (alignment - 1)) != 0)
BadAlignment(alignment) ==
    alignment <= 0 \/ BitAnd(alignment, alignment - 1) # 0

\* if (arena->pos + (unsigned long)size > arena->capacity)
alloc_overflow(a, size) == UAdd(a.pos, ToULong(size)) > a.capacity

\* unsigned long current_addr = (unsigned long)(arena->data + arena->pos);
current_addr(a) == UAdd(a.data, a.pos)

\* Mutant: the outer reduction is dropped, so an aligned address is padded too.
align_offset_unreduced(addr, alignment) == alignment - (addr % alignment)

\* unsigned long offset = (alignment - (current_addr % alignment)) % alignment;
align_offset(addr, alignment) == (alignment - (addr % alignment)) % alignment

\* unsigned long new_pos = arena->pos + offset;
aligned_new_pos(a, alignment) ==
    UAdd(a.pos, align_offset(current_addr(a), alignment))

\* if (new_pos + (unsigned long)size > arena->capacity)
aligned_overflow(a, size, alignment) ==
    UAdd(aligned_new_pos(a, alignment), ToULong(size)) > a.capacity

\* arena->error = "..." on a failure path: only the error field changes.
set_error(a, msg) == [a EXCEPT !.error = msg]

\* arena->pos += size; arena->error = "no error";
alloc_commit(a, size) ==
    [a EXCEPT !.pos = UAdd(a.pos, ToULong(size)), !.error = ErrNone]

\* arena->pos = new_pos + size; arena->error = "no error";
aligned_commit(a, size, alignment) ==
    [a EXCEPT !.pos = UAdd(aligned_new_pos(a, alignment), ToULong(size)),
              !.error = ErrNone]

\* Mutant: reset rewinds the cursor and keeps the stale error.
reset_arena_keeps_error(a) == [a EXCEPT !.pos = 0]

\* Mutant: reset clears the error and does not rewind the cursor.
reset_arena_keeps_pos(a) == [a EXCEPT !.error = ErrNone]

\* arena->pos = 0; arena->error = "no error";
reset_arena(a) == [a EXCEPT !.pos = 0, !.error = ErrNone]

\* Mutant: the guard is compared with the wrong value and never seen as set.
static_claimed_never(used) == used > 1

\* if (_arena_static_used)
static_claimed(used) == used # 0

\* _arena_static.pos = 0; _arena_static.error = "no error";
claim_static(a) == [a EXCEPT !.pos = 0, !.error = ErrNone]

\* Mutant: the handle is not looked at and the shared instance's message is
\* returned for an absent one too.
arena_error_ignores_handle(inst) ==
    IF arena.error # NoErrorField THEN arena.error ELSE ErrNone

\* arena_error: the arena's message ("no error" for a NULL field), or the global.
arena_error(inst) ==
    IF inst # "NULL"
    THEN (IF arena.error # NoErrorField THEN arena.error ELSE ErrNone)
    ELSE _arena_error_global

Init ==
    /\ mode \in {"dynamic", "static"}
    /\ IF mode = "static"
       THEN \E base \in 1 .. MaxBase :
                /\ base + ARENA_SIZE <= ULONG_MAX
                /\ arena = [data |-> base, capacity |-> ARENA_SIZE, pos |-> 0,
                            error |-> NoErrorField]
       ELSE arena = NoArena
    /\ _arena_static_used = 0
    /\ _arena_error_global = ErrNone
    /\ h = "NULL"
    /\ last = NoCall
    /\ earlier = NoRange
    /\ lock = 0
    /\ th = [t \in Threads |-> IdleThread]
    /\ holds = {}
    /\ heap = NoHeap

\* arena_init(void) of the fixed-storage mode.
arena_init_static ==
    /\ mode = "static"
    /\ IF static_claimed(_arena_static_used)
       THEN /\ arena' = set_error(arena, ErrStaticUsed)
            /\ last' = [NoCall EXCEPT !.op = "init", !.prePos = arena.pos]
            /\ UNCHANGED <<_arena_static_used, h, earlier>>
       ELSE /\ arena' = claim_static(arena)
            /\ _arena_static_used' = 1
            /\ h' = "arena"
            /\ last' = [NoCall EXCEPT !.op = "init", !.inst = "arena",
                                      !.prePos = arena.pos]
            /\ earlier' = NoRange
    /\ UNCHANGED <<mode, _arena_error_global, heap>>
    /\ UNCHANGED mtvars

\* arena_init(int size) of the dynamic mode; the caller holds no arena yet.
arena_init_dynamic(size, structOk, dataPtr) ==
    /\ mode = "dynamic"
    /\ h = "NULL"
    /\ dataPtr \in MallocResults(ToULong(size))
    /\    IF ~structOk
          THEN /\ _arena_error_global' = ErrOomStruct
               /\ heap' = heap_enter(heap)
               /\ last' = [NoCall EXCEPT !.op = "init", !.size = size]
               /\ UNCHANGED <<arena, h>>
          ELSE IF dataPtr = NULL
          THEN /\ _arena_error_global' = ErrOomData
               /\ heap' = init_oom_data_cleanup(
                              heap_malloc(heap_enter(heap), "struct"))
               /\ last' = [NoCall EXCEPT !.op = "init", !.size = size]
               /\ UNCHANGED <<arena, h>>
          ELSE /\ arena' = [data |-> dataPtr, capacity |-> ToULong(size),
                            pos |-> 0, error |-> ErrNone]
               /\ heap' = heap_malloc(heap_malloc(heap_enter(heap), "struct"),
                                      "data")
               /\ h' = "arena"
               /\ last' = [NoCall EXCEPT !.op = "init", !.inst = "arena",
                                         !.size = size]
               /\ UNCHANGED _arena_error_global
    /\ earlier' = NoRange
    /\ UNCHANGED <<mode, _arena_static_used>>
    /\ UNCHANGED mtvars

\* arena_alloc(arena, size)
arena_alloc(inst, size) ==
    /\ inst \in Handles
    /\ LET call == [NoCall EXCEPT !.op = "alloc", !.inst = inst, !.size = size,
                                  !.prePos = arena.pos]
       IN  IF inst = "NULL"
           THEN /\ _arena_error_global' = ErrNullArena
                /\ last' = call
                /\ UNCHANGED arena
           ELSE IF size <= 0
           THEN /\ arena' = set_error(arena, ErrSize)
                /\ last' = call
                /\ UNCHANGED _arena_error_global
           ELSE IF alloc_overflow(arena, size)
           THEN /\ arena' = set_error(arena, ErrOverflow)
                /\ last' = call
                /\ UNCHANGED _arena_error_global
           ELSE /\ arena' = alloc_commit(arena, size)
                /\ last' = [call EXCEPT !.ret = UAdd(arena.data, arena.pos)]
                /\ UNCHANGED _arena_error_global
    /\ UNCHANGED <<mode, _arena_static_used, h, earlier, heap>>
    /\ UNCHANGED mtvars

\* arena_alloc_aligned(arena, size, alignment)
arena_alloc_aligned(inst, size, alignment) ==
    /\ inst \in Handles
    /\ LET call == [NoCall EXCEPT !.op = "alloc_aligned", !.inst = inst,
                                  !.size = size, !.alignment = alignment,
                                  !.prePos = arena.pos]
           new_pos == aligned_new_pos(arena, alignment)
       IN  IF inst = "NULL"
           THEN /\ _arena_error_global' = ErrNullArena
                /\ last' = call
                /\ UNCHANGED arena
           ELSE IF size <= 0
           THEN /\ arena' = set_error(arena, ErrSize)
                /\ last' = call
                /\ UNCHANGED _arena_error_global
           ELSE IF BadAlignment(alignment)
           THEN /\ arena' = set_error(arena, ErrAlign)
                /\ last' = call
                /\ UNCHANGED _arena_error_global
           ELSE IF aligned_overflow(arena, size, alignment)
           THEN /\ arena' = set_error(arena, ErrOverflowAligned)
                /\ last' = call
                /\ UNCHANGED _arena_error_global
           ELSE /\ arena' = aligned_commit(arena, size, alignment)
                /\ last' = [call EXCEPT !.ret = UAdd(arena.data, new_pos)]
                /\ UNCHANGED _arena_error_global
    /\ UNCHANGED <<mode, _arena_static_used, h, earlier, heap>>
    /\ UNCHANGED mtvars

\* arena_reset(arena)
arena_reset(inst) ==
    /\ inst \in Handles
    /\ IF inst = "NULL"
       THEN /\ UNCHANGED <<arena, earlier>>
       ELSE /\ arena' = reset_arena(arena)
            /\ earlier' = NoRange
    /\ last' = [NoCall EXCEPT !.op = "reset", !.inst = inst, !.prePos = arena.pos]
    /\ UNCHANGED <<mode, _arena_static_used, _arena_error_global, h, heap>>
    /\ UNCHANGED mtvars

\* arena_destroy(arena), dynamic mode only; the caller discards the handle.
arena_destroy(inst) ==
    /\ mode = "dynamic"
    /\ inst \in Handles
    /\ IF inst = "NULL"
       THEN /\ heap' = heap_enter(heap)
            /\ UNCHANGED <<arena, _arena_error_global, h, earlier>>
       ELSE /\ arena' = NoArena
            /\ heap' = destroy_release(heap_enter(heap))
            /\ _arena_error_global' = ErrNone
            /\ h' = "NULL"
            /\ earlier' = NoRange
    /\ last' = [NoCall EXCEPT !.op = "destroy", !.inst = inst, !.prePos = arena.pos]
    /\ UNCHANGED <<mode, _arena_static_used>>
    /\ UNCHANGED mtvars

\* Fixed-storage mode declares no destroy and no release ("No destroy needed
\* for static arena"): a caller that is done with the arena drops its pointer,
\* and no code runs.
discard_handle ==
    /\ mode = "static"
    /\ h = "arena"
    /\ h' = "NULL"
    /\ last' = [NoCall EXCEPT !.op = "discard", !.inst = "arena",
                              !.prePos = arena.pos]
    /\ UNCHANGED <<mode, arena, _arena_static_used, _arena_error_global, earlier,
                   heap>>
    /\ UNCHANGED mtvars

\* An observer of the returned ranges takes the range of the latest call to
\* compare it with the ranges of the calls that follow.
Observe ==
    /\ LastReturned
    /\ earlier' = LastRange
    /\ last' = NoCall
    /\ UNCHANGED <<mode, arena, _arena_static_used, _arena_error_global, h, heap>>
    /\ UNCHANGED mtvars

Next ==
    \/ arena_init_static
    \/ \E size \in InitSizes, structOk \in BOOLEAN, dataPtr \in 0 .. MaxBase :
          arena_init_dynamic(size, structOk, dataPtr)
    \/ \E inst \in {"NULL", "arena"}, size \in SizeArgs : arena_alloc(inst, size)
    \/ \E inst \in {"NULL", "arena"}, size \in SizeArgs, alignment \in AlignArgs :
          arena_alloc_aligned(inst, size, alignment)
    \/ \E inst \in {"NULL", "arena"} : arena_reset(inst)
    \/ \E inst \in {"NULL", "arena"} : arena_destroy(inst)
    \/ discard_handle

Spec == Init /\ [][Next]_vars

\* The calls on one live instance, with the observer of the returned ranges.
NextRanges ==
    \/ arena_init_static
    \/ \E size \in InitSizes, dataPtr \in 1 .. MaxBase :
          arena_init_dynamic(size, TRUE, dataPtr)
    \/ \E size \in SizeArgs : arena_alloc("arena", size)
    \/ \E size \in SizeArgs, alignment \in AlignArgs :
          arena_alloc_aligned("arena", size, alignment)
    \/ arena_reset("arena")
    \/ Observe

SpecRanges == Init /\ [][NextRanges]_vars

(***************************************************************************)
(* Threads, with ARENA_LOCK / ARENA_UNLOCK bound to a mutex as in          *)
(* examples/arena.c (fixed-storage mode).  A call runs up to its           *)
(* ARENA_LOCK(), blocks until the mutex is free, and runs its critical     *)
(* section up to the ARENA_UNLOCK() before its return.                     *)
(***************************************************************************)

MTSizeArgs == {0, MTSize, INT_MAX}

MTAlignArgs == {0, 2, MaxAlign}
MTInitSizes == {MTSize, INT_MAX}

Thread(t, pc, call) == [th EXCEPT ![t] = [call EXCEPT !.pc = pc]]

\* Mutant: the release hook leaves the mutex with its holder.
ARENA_UNLOCK_skipped(holder) == holder

\* ARENA_UNLOCK(): pthread_mutex_unlock by the holder frees the mutex.
ARENA_UNLOCK(holder) == 0

\* arena_init(): entry, up to ARENA_LOCK().
mt_init_call(t) ==
    /\ mode = "static"
    /\ th[t].pc = "idle"
    /\ th' = Thread(t, "lock", [IdleThread EXCEPT !.op = "init"])
    /\ UNCHANGED <<heap, mode, arena, _arena_static_used, _arena_error_global, h,
                   last, earlier, lock, holds>>

\* ARENA_LOCK(): pthread_mutex_lock blocks until the mutex is free.
mt_lock(t) ==
    /\ th[t].pc = "lock"
    /\ lock = 0
    /\ lock' = t
    /\ th' = Thread(t, "locked", th[t])
    /\ UNCHANGED <<heap, mode, arena, _arena_static_used, _arena_error_global, h,
                   last, earlier, holds>>

\* arena_init(): the critical section, ARENA_UNLOCK() and the return.
mt_init_body(t) ==
    /\ mode = "static"
    /\ th[t].pc = "locked"
    /\ th[t].op = "init"
    /\ IF static_claimed(_arena_static_used)
       THEN /\ arena' = set_error(arena, ErrStaticUsed)
            /\ th' = Thread(t, "done", th[t])
            /\ UNCHANGED <<_arena_static_used, h, holds>>
       ELSE /\ arena' = claim_static(arena)
            /\ _arena_static_used' = 1
            /\ h' = "arena"
            /\ holds' = holds \cup {t}
            /\ th' = Thread(t, "done", [th[t] EXCEPT !.inst = "arena"])
    /\ lock' = ARENA_UNLOCK(t)
    /\ UNCHANGED <<heap, mode, _arena_error_global, last, earlier>>

\* arena_alloc(): the checks made before ARENA_LOCK().
mt_alloc_call(t, inst, size) ==
    /\ th[t].pc = "idle"
    /\ inst \in Handles
    /\ LET call == [IdleThread EXCEPT !.op = "alloc", !.inst = inst,
                                      !.size = size]
       IN  IF inst = "NULL"
           THEN /\ _arena_error_global' = ErrNullArena
                /\ th' = Thread(t, "done", call)
                /\ UNCHANGED arena
           ELSE IF size <= 0
           THEN /\ arena' = set_error(arena, ErrSize)
                /\ th' = Thread(t, "done", call)
                /\ UNCHANGED _arena_error_global
           ELSE /\ th' = Thread(t, "lock", call)
                /\ UNCHANGED <<arena, _arena_error_global>>
    /\ UNCHANGED <<heap, mode, _arena_static_used, h, last, earlier, lock, holds>>

\* arena_alloc(): the critical section, ARENA_UNLOCK() and the return.
mt_alloc_body(t) ==
    /\ th[t].pc = "locked"
    /\ th[t].op = "alloc"
    /\ IF alloc_overflow(arena, th[t].size)
       THEN /\ arena' = set_error(arena, ErrOverflow)
            /\ th' = Thread(t, "done", th[t])
       ELSE /\ arena' = alloc_commit(arena, th[t].size)
            /\ th' = Thread(t, "done",
                            [th[t] EXCEPT !.ret = UAdd(arena.data, arena.pos)])
    /\ lock' = ARENA_UNLOCK(t)
    /\ UNCHANGED <<heap, mode, _arena_static_used, _arena_error_global, h, last,
                   earlier, holds>>

\* arena_reset(): the check made before ARENA_LOCK().
mt_reset_call(t, inst) ==
    /\ th[t].pc = "idle"
    /\ inst \in Handles
    /\ LET call == [IdleThread EXCEPT !.op = "reset", !.inst = inst]
       IN  th' = Thread(t, IF inst = "NULL" THEN "done" ELSE "lock", call)
    /\ UNCHANGED <<heap, mode, arena, _arena_static_used, _arena_error_global, h,
                   last, earlier, lock, holds>>

\* arena_reset(): the critical section, ARENA_UNLOCK() and the return.
mt_reset_body(t) ==
    /\ th[t].pc = "locked"
    /\ th[t].op = "reset"
    /\ arena' = reset_arena(arena)
    /\ th' = Thread(t, "done", th[t])
    /\ lock' = ARENA_UNLOCK(t)
    /\ UNCHANGED <<heap, mode, _arena_static_used, _arena_error_global, h, last,
                   earlier, holds>>

\* arena_init(size) of the dynamic mode: entry, up to ARENA_LOCK().  The
\* program builds one arena at a time.
mt_dyninit_call(t, size) ==
    /\ mode = "dynamic"
    /\ th[t].pc = "idle"
    /\ h = "NULL"
    /\ \A u \in Threads : th[u].op \notin {"init", "destroy"}
    /\ th' = Thread(t, "lock", [IdleThread EXCEPT !.op = "init", !.size = size])
    /\ UNCHANGED <<heap, mode, arena, _arena_static_used, _arena_error_global, h,
                   last, earlier, lock, holds>>

\* arena_init(size): the critical section, ARENA_UNLOCK() and the return.
mt_dyninit_body(t, structOk, dataPtr) ==
    /\ mode = "dynamic"
    /\ th[t].pc = "locked"
    /\ th[t].op = "init"
    /\ dataPtr \in MallocResults(ToULong(th[t].size))
    /\    IF ~structOk
          THEN /\ _arena_error_global' = ErrOomStruct
               /\ heap' = heap_enter(heap)
               /\ th' = Thread(t, "done", th[t])
               /\ UNCHANGED <<arena, h, holds>>
          ELSE IF dataPtr = NULL
          THEN /\ _arena_error_global' = ErrOomData
               /\ heap' = init_oom_data_cleanup(
                              heap_malloc(heap_enter(heap), "struct"))
               /\ th' = Thread(t, "done", th[t])
               /\ UNCHANGED <<arena, h, holds>>
          ELSE /\ arena' = [data |-> dataPtr, capacity |-> ToULong(th[t].size),
                            pos |-> 0, error |-> ErrNone]
               /\ heap' = heap_malloc(heap_malloc(heap_enter(heap), "struct"),
                                      "data")
               /\ h' = "arena"
               /\ holds' = holds \cup {t}
               /\ th' = Thread(t, "done", [th[t] EXCEPT !.inst = "arena"])
               /\ UNCHANGED _arena_error_global
    /\ lock' = ARENA_UNLOCK(t)
    /\ UNCHANGED <<mode, _arena_static_used, last, earlier>>

\* arena_alloc_aligned(): the checks made before ARENA_LOCK().
mt_aligned_call(t, inst, size, alignment) ==
    /\ th[t].pc = "idle"
    /\ inst \in Handles
    /\ LET call == [IdleThread EXCEPT !.op = "alloc_aligned", !.inst = inst,
                                      !.size = size, !.alignment = alignment]
       IN  IF inst = "NULL"
           THEN /\ _arena_error_global' = ErrNullArena
                /\ th' = Thread(t, "done", call)
                /\ UNCHANGED arena
           ELSE IF size <= 0
           THEN /\ arena' = set_error(arena, ErrSize)
                /\ th' = Thread(t, "done", call)
                /\ UNCHANGED _arena_error_global
           ELSE IF BadAlignment(alignment)
           THEN /\ arena' = set_error(arena, ErrAlign)
                /\ th' = Thread(t, "done", call)
                /\ UNCHANGED _arena_error_global
           ELSE /\ th' = Thread(t, "lock", call)
                /\ UNCHANGED <<arena, _arena_error_global>>
    /\ UNCHANGED <<heap, mode, _arena_static_used, h, last, earlier, lock, holds>>

\* arena_alloc_aligned(): the critical section, ARENA_UNLOCK() and the return.
mt_aligned_body(t) ==
    /\ th[t].pc = "locked"
    /\ th[t].op = "alloc_aligned"
    /\ IF aligned_overflow(arena, th[t].size, th[t].alignment)
       THEN /\ arena' = set_error(arena, ErrOverflowAligned)
            /\ th' = Thread(t, "done", th[t])
       ELSE /\ arena' = aligned_commit(arena, th[t].size, th[t].alignment)
            /\ th' = Thread(t, "done",
                            [th[t] EXCEPT !.ret =
                                UAdd(arena.data,
                                     aligned_new_pos(arena, th[t].alignment))])
    /\ lock' = ARENA_UNLOCK(t)
    /\ UNCHANGED <<heap, mode, _arena_static_used, _arena_error_global, h, last,
                   earlier, holds>>

\* arena_destroy(): the check made before ARENA_LOCK().  The caller destroys
\* an arena no other thread is using and the handle is withdrawn.
mt_destroy_call(t, inst) ==
    /\ mode = "dynamic"
    /\ th[t].pc = "idle"
    /\ inst \in Handles
    /\ LET call == [IdleThread EXCEPT !.op = "destroy", !.inst = inst]
       IN  IF inst = "NULL"
           THEN /\ th' = Thread(t, "done", call)
                /\ UNCHANGED h
           ELSE /\ \A u \in Threads \ {t} : th[u].pc \in {"idle", "done"}
                /\ h' = "NULL"
                /\ th' = Thread(t, "lock", call)
    /\ UNCHANGED <<heap, mode, arena, _arena_static_used, _arena_error_global,
                   last, earlier, lock, holds>>

\* arena_destroy(): the critical section, ARENA_UNLOCK() and the return.
mt_destroy_body(t) ==
    /\ th[t].pc = "locked"
    /\ th[t].op = "destroy"
    /\ arena' = NoArena
    /\ heap' = destroy_release(heap_enter(heap))
    /\ _arena_error_global' = ErrNone
    /\ holds' = {}
    /\ th' = Thread(t, "done", th[t])
    /\ lock' = ARENA_UNLOCK(t)
    /\ UNCHANGED <<mode, _arena_static_used, h, last, earlier>>

\* The caller takes the result; the thread is ready for its next call.
mt_return(t) ==
    /\ th[t].pc = "done"
    /\ th' = Thread(t, "idle", IdleThread)
    /\ UNCHANGED <<heap, mode, arena, _arena_static_used, _arena_error_global, h,
                   last, earlier, lock, holds>>

InitMT == Init /\ mode = "static"

NextMT ==
    \E t \in Threads :
        \/ mt_init_call(t)
        \/ mt_lock(t)
        \/ mt_init_body(t)
        \/ \E inst \in {"NULL", "arena"}, size \in MTSizeArgs :
              mt_alloc_call(t, inst, size)
        \/ mt_alloc_body(t)
        \/ \E inst \in {"NULL", "arena"} : mt_reset_call(t, inst)
        \/ mt_reset_body(t)
        \/ mt_return(t)

SpecMT == InitMT /\ [][NextMT]_vars

\* The calls of the threads that take each return path of arena_alloc and
\* arena_alloc_aligned: <<arena, size>> and <<arena, size, alignment>>.
AllocCalls == {<<"NULL", MTSize>>, <<"arena", 0>>, <<"arena", MTSize>>}
AlignedCalls == {<<"NULL", MTSize, MaxAlign>>, <<"arena", 0, MaxAlign>>,
                 <<"arena", MTSize, 0>>, <<"arena", MTSize, MaxAlign>>}

\* Every operation of both modes, called by the threads.
NextLock ==
    \E t \in Threads :
        \/ mt_init_call(t)
        \/ mt_dyninit_call(t, INT_MAX)
        \/ mt_lock(t)
        \/ mt_init_body(t)
        \/ \E structOk \in BOOLEAN, dataPtr \in 0 .. MaxBase :
              mt_dyninit_body(t, structOk, dataPtr)
        \/ \E c \in AllocCalls : mt_alloc_call(t, c[1], c[2])
        \/ mt_alloc_body(t)
        \/ \E c \in AlignedCalls : mt_aligned_call(t, c[1], c[2], c[3])
        \/ mt_aligned_body(t)
        \/ \E inst \in {"NULL", "arena"} : mt_reset_call(t, inst)
        \/ mt_reset_body(t)
        \/ \E inst \in {"NULL", "arena"} : mt_destroy_call(t, inst)
        \/ mt_destroy_body(t)
        \/ mt_return(t)

SpecLock == Init /\ [][NextLock]_vars

\* The pointer a thread's allocation call returned, as a range of offsets.
Returned(t) ==
    /\ th[t].pc = "done"
    /\ th[t].op \in {"alloc", "alloc_aligned"}
    /\ th[t].ret # NULL
RangeOf(t) == [start |-> (th[t].ret - arena.data) % ULONG_MOD, size |-> th[t].size]

\* The caller takes the pointer an allocation returned and an observer of the
\* returned ranges keeps it to compare it with the ranges returned later.
mt_observe(t) ==
    /\ Returned(t)
    /\ earlier' = RangeOf(t)
    /\ th' = Thread(t, "idle", IdleThread)
    /\ UNCHANGED <<heap, mode, arena, _arena_static_used, _arena_error_global, h,
                   last, lock, holds>>

\* Threads that build one instance and then only allocate from it.
NextShare ==
    \E t \in Threads :
        \/ mt_init_call(t)
        \/ \E size \in MTInitSizes : mt_dyninit_call(t, size)
        \/ mt_lock(t)
        \/ mt_init_body(t)
        \/ \E dataPtr \in 1 .. MaxBase : mt_dyninit_body(t, TRUE, dataPtr)
        \/ \E size \in {MTSize, INT_MAX} : mt_alloc_call(t, "arena", size)
        \/ mt_alloc_body(t)
        \/ \E size \in {MTSize, INT_MAX}, alignment \in {2, MaxAlign} :
              mt_aligned_call(t, "arena", size, alignment)
        \/ mt_aligned_body(t)
        \/ mt_return(t)
        \/ mt_observe(t)

SpecShare == Init /\ [][NextShare]_vars

(***************************************************************************)
(* Properties.                                                             *)
(***************************************************************************)

\* The last call was made on the live instance.
OnLive(op) == last.op = op /\ last.inst = "arena"

\* Two ranges of offsets share no byte.
Disjoint(r1, r2) ==
    r1.start + r1.size <= r2.start \/ r2.start + r2.size <= r1.start

\* The range lies within [0, capacity).
InBounds(r) == r.start + r.size <= arena.capacity

\* The padding alloc_aligned must skip, as a mathematical integer: the least
\* p >= 0 with storage + offset + p a multiple of the alignment.
Padding(addr, alignment) ==
    CHOOSE p \in 0 .. (alignment - 1) : (addr + p) % alignment = 0

\* C1: the ranges returned by successful alloc / alloc_aligned calls since the
\* most recent reset (or init) are pairwise non-overlapping and each lies
\* within [0, capacity) of the storage.
C1_RangesDisjointInBounds ==
    LastReturned =>
        /\ InBounds(LastRange)
        /\ earlier # NoRange => Disjoint(earlier, LastRange)

\* C2: alloc(n), n > 0, succeeds at storage + offset and advances offset by
\* exactly n when capacity - offset >= n; otherwise it returns absent and
\* leaves offset unchanged.
C2_AllocExact ==
    (OnLive("alloc") /\ last.size > 0) =>
        IF arena.capacity - last.prePos >= last.size
        THEN /\ last.ret = arena.data + last.prePos
             /\ arena.pos = last.prePos + last.size
        ELSE /\ last.ret = NULL
             /\ arena.pos = last.prePos

\* C3: a successful alloc_aligned(n, a) returns an exact multiple of a, the
\* smallest one that is >= storage + offset, whatever the base address.
C3_AlignedAddress ==
    (OnLive("alloc_aligned") /\ last.ret # NULL) =>
        /\ last.ret % last.alignment = 0
        /\ last.ret >= arena.data + last.prePos
        /\ last.ret - (arena.data + last.prePos) < last.alignment

\* C3 witness: an aligned allocation that had to skip padding from an
\* unaligned address.
C3_Witness ==
    /\ OnLive("alloc_aligned")
    /\ last.ret # NULL
    /\ last.alignment = 4
    /\ last.prePos > 0
    /\ last.ret > arena.data + last.prePos

\* C4: with offset' the aligned offset, alloc_aligned succeeds exactly when
\* offset' + size <= capacity and then sets offset = offset' + size; otherwise
\* it returns absent and leaves offset as it was.
C4_AlignedFrame ==
    (OnLive("alloc_aligned") /\ last.size > 0 /\ ~BadAlignment(last.alignment)) =>
        LET aligned == last.prePos
                         + Padding(arena.data + last.prePos, last.alignment)
        IN  IF aligned + last.size <= arena.capacity
            THEN /\ last.ret = arena.data + aligned
                 /\ arena.pos = aligned + last.size
            ELSE /\ last.ret = NULL
                 /\ arena.pos = last.prePos

\* A call keeps offset within the capacity, keeps the instance's capacity, and
\* an allocation call does not move offset down.
C5_OffsetStep ==
    /\ arena'.pos >= 0 /\ arena'.pos <= arena'.capacity
    /\ (last'.op \in {"alloc", "alloc_aligned", "reset", "discard"}
          \/ (last'.op = "init" /\ mode = "static"))
        => arena'.capacity = arena.capacity
    /\ last'.op \in {"alloc", "alloc_aligned"} => arena'.pos >= arena.pos

\* C5: 0 <= offset <= capacity in every reachable state; capacity keeps its
\* value at construction; between two resets offset never decreases.
C5_OffsetInvariant ==
    /\ [](arena.pos >= 0 /\ arena.pos <= arena.capacity)
    /\ [][C5_OffsetStep]_vars

\* C6: the capacity check is not subject to wraparound: a call succeeds only
\* if the unbounded value of offset (+ padding) + size is <= capacity.
C6_NoWrapSuccess ==
    /\ (OnLive("alloc") /\ last.ret # NULL) =>
           last.prePos + last.size <= arena.capacity
    /\ (OnLive("alloc_aligned") /\ last.ret # NULL) =>
           last.prePos + Padding(arena.data + last.prePos, last.alignment)
               + last.size <= arena.capacity

\* A step in which thread t's arena_init() runs its critical section.
InitBodyStep(t) ==
    /\ th[t].pc = "locked" /\ th[t].op = "init"
    /\ th'[t].pc = "done"

\* An init() that runs after another has returned the instance fails.
C7_FurtherInitStep ==
    \A t \in Threads :
        (InitBodyStep(t) /\ holds # {}) =>
            /\ th'[t].inst = "NULL"
            /\ holds' = holds
            /\ arena'.error = ErrStaticUsed
            /\ arena'.pos = arena.pos

\* C7: at most one claim on the singleton is live: once one init() has
\* returned the instance, every further init(), under any interleaving with
\* the lock hooks bound, returns absent and records the already-in-use error
\* on the shared instance, without changing its offset.
C7_SingleClaim ==
    /\ [](Cardinality(holds) <= 1)
    /\ [][C7_FurtherInitStep]_vars

\* C7 witness: an init() has failed after another thread's init() returned
\* the instance and the holder had allocated from it.
C7_Witness ==
    \E t \in Threads :
        /\ th[t].pc = "done" /\ th[t].op = "init" /\ th[t].inst = "NULL"
        /\ holds # {} /\ t \notin holds
        /\ arena.pos > 0
        /\ arena.error = ErrStaticUsed

\* The init() that follows the release of the instance succeeds.
C8_InitAfterReleaseStep ==
    (last.op = "discard" /\ last'.op = "init") =>
        /\ last'.inst = "arena"
        /\ h' = "arena"
        /\ arena'.pos = 0
        /\ arena'.error = ErrNone

\* C8: the claim can be cycled: after a successful init() and the release of
\* the instance, a subsequent init() succeeds again, with offset 0 and the
\* error cleared.
C8_ReleaseThenInit == [][C8_InitAfterReleaseStep]_vars

\* What a reset call changes, on a live and on an absent instance.
C9_ResetStep ==
    /\ (last'.op = "reset" /\ last'.inst = "arena") =>
           /\ arena'.pos = 0
           /\ arena'.error = ErrNone
           /\ arena'.capacity = arena.capacity
           /\ arena'.data = arena.data
           /\ UNCHANGED <<mode, _arena_static_used, _arena_error_global, h>>
    /\ (OnLive("reset") /\ last'.op = "reset" /\ last'.inst = "arena") =>
           arena' = arena
    /\ (last'.op = "reset" /\ last'.inst = "NULL") =>
           UNCHANGED <<mode, arena, _arena_static_used, _arena_error_global, h>>

\* C9: reset on a live instance sets offset to 0 and the error to "no error"
\* and changes nothing else; a second reset right after changes nothing; reset
\* with an absent instance changes no state, the process-wide slot included.
C9_ResetFrame == [][C9_ResetStep]_vars

\* C9 witness: reset has acted on a live instance that had allocations, a
\* recorded error and a process-wide message.
C9_Witness ==
    /\ OnLive("reset")
    /\ last.prePos > 0
    /\ arena.pos = 0
    /\ arena.error = ErrNone
    /\ _arena_error_global # ErrNone

\* The allocation that directly follows a reset or a successful init.
C10_FirstAllocStep ==
    (/\ last.op \in {"reset", "init"} /\ last.inst = "arena"
     /\ last'.op = "alloc" /\ last'.inst = "arena"
     /\ last'.size > 0 /\ last'.size <= arena.capacity) =>
        /\ last'.ret # NULL
        /\ last'.ret = arena.data
        /\ arena'.pos = last'.size

\* C10: after reset(), alloc(n) with 0 < n <= capacity succeeds and returns
\* the storage base, the address the first allocation after init returns.
C10_RoundTrip == [][C10_FirstAllocStep]_vars

\* C10 witness: reset has rewound an instance whose cursor had advanced, and
\* an allocation that fits is about to be made.
C10_Witness ==
    /\ OnLive("reset")
    /\ last.prePos > 0
    /\ arena.capacity >= MaxSize
    /\ arena.pos = 0

\* The positive powers of two an int can hold.
IsPowerOfTwo(a) == \E k \in 0 .. (IW - 2) : a = 2 ^ k

\* C11: on a live instance, alloc(size) and alloc_aligned(size, a) with
\* size <= 0 return absent with the invalid-size error on the instance;
\* alloc_aligned with size > 0 and an alignment that is <= 0 or not a power of
\* two returns absent with the invalid-alignment error on the instance; the
\* offset is unchanged in all these cases.
C11_ArgumentValidation ==
    /\ ((OnLive("alloc") \/ OnLive("alloc_aligned")) /\ last.size <= 0) =>
           /\ last.ret = NULL
           /\ arena_error("arena") = ErrSize
           /\ arena.pos = last.prePos
    /\ (OnLive("alloc_aligned") /\ last.size > 0
          /\ ~IsPowerOfTwo(last.alignment)) =>
           /\ last.ret = NULL
           /\ arena_error("arena") = ErrAlign
           /\ arena.pos = last.prePos

\* C11 witness: alloc_aligned with a positive size and alignment 3 has been
\* refused on an instance whose cursor had advanced.
C11_Witness ==
    /\ OnLive("alloc_aligned")
    /\ last.size > 0
    /\ last.alignment = 3
    /\ last.prePos > 0
    /\ last.ret = NULL
    /\ arena.error = ErrAlign
    /\ arena.pos = last.prePos

\* The message of the failure kind of an allocation call that returned absent.
FailureMessage(call) ==
    IF call.size <= 0 THEN ErrSize
    ELSE IF call.op = "alloc_aligned" /\ ~IsPowerOfTwo(call.alignment)
    THEN ErrAlign
    ELSE IF call.op = "alloc" THEN ErrOverflow
    ELSE ErrOverflowAligned

\* C12: after every alloc, alloc_aligned or reset call, error() on the handle
\* that was passed describes that call's outcome: "no error" after a success,
\* the message of the call's failure kind after a failure, each kind distinct;
\* after a call made with an absent instance, error(absent) is "null arena".
C12_ErrorDescribesCall ==
    /\ Cardinality({ErrNone, ErrNullArena, ErrSize, ErrAlign, ErrOverflow,
                    ErrOverflowAligned}) = 6
    /\ (last.op \in {"alloc", "alloc_aligned", "reset"} /\ last.inst = "NULL") =>
           arena_error("NULL") = ErrNullArena
    /\ OnLive("reset") => arena_error("arena") = ErrNone
    /\ ((OnLive("alloc") \/ OnLive("alloc_aligned")) /\ last.ret # NULL) =>
           arena_error("arena") = ErrNone
    /\ ((OnLive("alloc") \/ OnLive("alloc_aligned")) /\ last.ret = NULL) =>
           arena_error("arena") = FailureMessage(last)

\* C13: dynamic mode: if the acquisition of the instance record or of the
\* storage fails, init(size) returns absent and error(absent) then returns an
\* out-of-memory message; if both succeed, init returns a live instance with
\* offset = 0, capacity = size and error(instance) = "no error".
C13_DynamicInit ==
    (mode = "dynamic" /\ last.op = "init") =>
        IF last.inst = "NULL"
        THEN /\ h = "NULL"
             /\ arena_error("NULL") \in {ErrOomStruct, ErrOomData}
        ELSE /\ h = "arena"
             /\ arena.pos = 0
             /\ arena.capacity = last.size
             /\ arena_error("arena") = ErrNone

\* C14: fixed-storage mode: right after an init() that failed because the
\* singleton is already claimed, error(absent) returns the message of that
\* failure, not "no error" and not a stale message.
C14_StaticInitDiagnosable ==
    (mode = "static" /\ last.op = "init" /\ last.inst = "NULL") =>
        arena_error("NULL") = ErrStaticUsed

\* C15: dynamic mode: init(size) with size <= 0 returns absent and creates no
\* live instance.
C15_InitRejectsNonPositive ==
    (mode = "dynamic" /\ last.op = "init" /\ last.size <= 0) =>
        /\ last.inst = "NULL"
        /\ h = "NULL"

\* What init and destroy keep of the storage provider's regions.
C17_HeapBalanced ==
    /\ ~heap.bad
    /\ heap.live = (IF mode = "dynamic" /\ h = "arena"
                    THEN {"struct", "data"} ELSE {})
    /\ (last.op = "destroy" /\ last.inst = "arena") =>
           heap.frees = <<"data", "struct">>
    /\ (last.op = "destroy" /\ last.inst = "NULL") => heap.frees = <<>>
    /\ (mode = "dynamic" /\ last.op = "init") =>
           heap.frees = (IF last.inst = "NULL" /\ _arena_error_global = ErrOomData
                         THEN <<"struct">> ELSE <<>>)

\* destroy with an absent instance changes no state.
C17_DestroyAbsentStep ==
    (last'.op = "destroy" /\ last'.inst = "NULL") =>
        /\ heap'.live = heap.live
        /\ UNCHANGED <<mode, arena, _arena_static_used, _arena_error_global, h>>

\* C17: dynamic mode: every region obtained from the allocation function is
\* released through the free function exactly once and never twice:
\* destroy(instance) frees the storage and then the instance record; an init
\* that acquires the record but not the storage frees the record before it
\* returns absent; destroy(absent) calls neither and changes no state.
C17_ResourceBalance ==
    /\ []C17_HeapBalanced
    /\ [][C17_DestroyAbsentStep]_vars

\* C17 witness: destroy has released a live instance that had served
\* allocations.
C17_Witness ==
    /\ last.op = "destroy" /\ last.inst = "arena"
    /\ last.prePos > 0
    /\ heap.live = {}
    /\ heap.frees = <<"data", "struct">>

\* The critical section of thread t's call in progress.
mt_body(t) ==
    \/ mt_init_body(t)
    \/ \E structOk \in BOOLEAN, dataPtr \in 0 .. MaxBase :
          mt_dyninit_body(t, structOk, dataPtr)
    \/ mt_alloc_body(t)
    \/ mt_aligned_body(t)
    \/ mt_reset_body(t)
    \/ mt_destroy_body(t)

\* C16: with the lock hooks bound, in construct, alloc, alloc_aligned, reset
\* and destroy every acquire is matched by exactly one release before the
\* operation returns, on every return path: a thread holds the lock exactly
\* while it is inside a critical section, so none returns holding it, none
\* acquires it while holding it, and the holder can always run to its release:
\* no sequence of operations deadlocks on the hook.
C16_LockBalanced ==
    /\ lock \in {0} \cup Threads
    /\ \A t \in Threads : (lock = t) <=> (th[t].pc = "locked")
    /\ lock # 0 => ENABLED mt_body(lock)

\* C16 witness: a call has returned on its failure path inside the critical
\* section while another thread waits for the lock.
C16_Witness ==
    \E t, u \in Threads :
        /\ th[t].pc = "done" /\ th[t].op = "alloc_aligned"
        /\ th[t].inst = "arena" /\ th[t].ret = NULL
        /\ arena.error = ErrOverflowAligned
        /\ th[u].pc = "lock"
        /\ lock = 0

\* A step of thread t's alloc or alloc_aligned that runs its critical section.
AllocBodyStep(t) ==
    /\ th[t].pc = "locked" /\ th[t].op \in {"alloc", "alloc_aligned"}
    /\ th'[t].pc = "done"

\* The ranges the threads hold, and one returned before them, share no byte
\* and lie within the capacity.
C18_RangesState ==
    \A t \in Threads :
        Returned(t) =>
            /\ InBounds(RangeOf(t))
            /\ earlier # NoRange => Disjoint(earlier, RangeOf(t))
            /\ \A u \in Threads \ {t} :
                   Returned(u) => Disjoint(RangeOf(t), RangeOf(u))

\* offset moves by the size and the padding of a successful call, and by
\* nothing else.
C18_OffsetStep ==
    /\ \A t \in Threads :
           AllocBodyStep(t) =>
               arena'.pos = arena.pos +
                   (IF th'[t].ret = NULL THEN 0
                    ELSE th[t].size +
                         (IF th[t].op = "alloc" THEN 0
                          ELSE Padding(arena.data + arena.pos, th[t].alignment)))
    /\ (~ \E t \in Threads : AllocBodyStep(t)) => arena'.pos = arena.pos

\* C18: with the lock hooks bound to a mutex, for any interleaving of alloc
\* and alloc_aligned calls of two or more threads on the same live instance,
\* the ranges returned by the successful calls are pairwise non-overlapping
\* and within capacity, and the final offset is the sum of the sizes and
\* paddings of the successful calls.
C18_SharedAllocation ==
    /\ []C18_RangesState
    /\ [][C18_OffsetStep]_vars

\* A step that writes the shared state is made by the holder of the lock,
\* inside its critical section.
C19_WriteStep ==
    (\/ arena' # arena
     \/ _arena_static_used' # _arena_static_used
     \/ _arena_error_global' # _arena_error_global) =>
        /\ lock # 0
        /\ th[lock].pc = "locked"
        /\ th'[lock].pc = "done"

\* C19: with the lock hooks bound, every write construct, alloc,
\* alloc_aligned, reset or destroy makes to shared state (offset, last_error,
\* the claim flag, the process-wide error slot) is made while the calling
\* thread holds the lock, the argument-validation failure paths included.
C19_WritesUnderLock == [][C19_WriteStep]_vars

\* What a call may do to the process-wide error slot.
C20_GlobalSlotStep ==
    /\ _arena_error_global' # _arena_error_global =>
           \/ /\ mode = "dynamic" /\ last'.op = "init" /\ last'.inst = "NULL"
              /\ _arena_error_global' \in {ErrOomStruct, ErrOomData}
           \/ /\ last'.op \in {"alloc", "alloc_aligned"} /\ last'.inst = "NULL"
              /\ _arena_error_global' = ErrNullArena
           \/ /\ last'.op = "destroy" /\ last'.inst = "arena"
              /\ _arena_error_global' = ErrNone
    /\ (last'.op \in {"alloc", "alloc_aligned", "reset", "init"}
          /\ last'.inst = "arena") =>
           /\ _arena_error_global' = _arena_error_global
           /\ arena_error("NULL")' = arena_error("NULL")

====
